---- MODULE Spec2Model ----
(***************************************************************************)
(* A model of the quote quiz of src/game.js: the scene validator, the      *)
(* bounded acquisition loop, the fuzzy answer check, and the round and     *)
(* session state that the event handlers revealHint, submitGuess and       *)
(* startNewRound mutate.  Strings are sequences of one-character strings.  *)
(***************************************************************************)
EXTENDS Integers, Sequences, FiniteSets, Bags, TLC

(***************************************************************************)
(* Bounds of the model.                                                    *)
(***************************************************************************)
\* startNewRound calls that may be awaiting a fetch at the same time
MaxInFlight == 2
\* rounds the player plays in one session
MaxRounds == 2
\* rejected candidates the provider hands to one acquisition (Spec only)
MaxRetries == 1

(***************************************************************************)
(* CONFIG and the other constants of the program.                          *)
(***************************************************************************)
CONFIG ==
  [ startingPoints |-> 100,
    hintCosts |-> [image |-> 30, season |-> 20, episodeNumber |-> 40],
    bonusPoints |-> [season |-> 25, episode |-> 50],
    minQuoteWords |-> 5,
    similarityThresholdPct |-> 75 ]   \* 0.75, in hundredths

maxAttempts == 50

HintTypes == {"image", "season", "episodeNumber"}

\* a number that is not one (parseInt of a text without leading digits)
NaN == <<>>

(***************************************************************************)
(* Characters and strings.                                                 *)
(***************************************************************************)
Max(x, y) == IF x >= y THEN x ELSE y
Min(x, y) == IF x <= y THEN x ELSE y

\* the class \s of the regular expressions
IsSpace(c) == c \in {" ", "\t"}

Digits == {"0", "1", "2", "3", "4", "5", "6", "7", "8", "9"}

LowerLetters == {"a", "b", "c", "d", "e", "x"}

DigitVal(c) ==
  CASE c = "0" -> 0 [] c = "1" -> 1 [] c = "2" -> 2 [] c = "3" -> 3
    [] c = "4" -> 4 [] c = "5" -> 5 [] c = "6" -> 6 [] c = "7" -> 7
    [] c = "8" -> 8 [] c = "9" -> 9

\* String.prototype.toLowerCase, one character
ToLowerChar(c) ==
  CASE c = "A" -> "a" [] c = "B" -> "b" [] c = "C" -> "c"
    [] c = "D" -> "d" [] c = "E" -> "e" [] c = "X" -> "x"
    [] OTHER -> c

toLowerCase(s) == [i \in 1..Len(s) |-> ToLowerChar(s[i])]

RECURSIVE TrimLeft(_)
TrimLeft(s) ==
  IF s # <<>> /\ IsSpace(Head(s)) THEN TrimLeft(Tail(s)) ELSE s

RECURSIVE TrimRight(_)
TrimRight(s) ==
  IF s # <<>> /\ IsSpace(s[Len(s)])
    THEN TrimRight(SubSeq(s, 1, Len(s) - 1))
    ELSE s

\* String.prototype.trim
trim(s) == TrimRight(TrimLeft(s))

\* s.split(/\s+/).length: one more than the number of whitespace runs
SplitLength(s) ==
  1 + Cardinality({i \in 1..Len(s) :
                     IsSpace(s[i]) /\ (i = 1 \/ ~IsSpace(s[i - 1]))})

\* s.replace(/[^a-z0-9\s]/g, '')
StripNonAlnum(s) ==
  SelectSeq(s, LAMBDA c : c \in LowerLetters \/ c \in Digits \/ IsSpace(c))

\* s.replace(/\s+/g, ' ')
RECURSIVE CollapseSpaces(_)
CollapseSpaces(s) ==
  IF s = <<>> THEN <<>>
  ELSE IF IsSpace(Head(s))
    THEN <<" ">> \o CollapseSpaces(TrimLeft(s))
    ELSE <<Head(s)>> \o CollapseSpaces(Tail(s))

\* parseInt(text): leading whitespace, an optional sign, then the digits
RECURSIVE DigitsValue(_, _)
DigitsValue(s, acc) ==
  IF s # <<>> /\ Head(s) \in Digits
    THEN DigitsValue(Tail(s), 10 * acc + DigitVal(Head(s)))
    ELSE acc

parseInt(text) ==
  LET t == TrimLeft(text)
      neg == t # <<>> /\ Head(t) = "-"
      u == IF t # <<>> /\ Head(t) \in {"-", "+"} THEN Tail(t) ELSE t
  IN IF u = <<>> \/ Head(u) \notin Digits THEN NaN
     ELSE <<(IF neg THEN -1 ELSE 1) * DigitsValue(u, 0)>>

\* JavaScript truthiness of a parseInt result: NaN and 0 are falsy
Truthy(n) == n # NaN /\ n[1] # 0

(***************************************************************************)
(* Validation.                                                             *)
(***************************************************************************)
RECURSIVE JoinSpace(_)
JoinSpace(parts) ==
  IF Len(parts) = 0 THEN <<>>
  ELSE IF Len(parts) = 1 THEN parts[1]
  ELSE parts[1] \o <<" ">> \o JoinSpace(Tail(parts))

getQuoteText(aScene) ==
  IF "Subtitles" \notin DOMAIN aScene \/ Len(aScene.Subtitles) = 0
    THEN <<>>
    ELSE JoinSpace(aScene.Subtitles)

\* total length of the matches of /\[[^\]]+\]/g in q, scanning from index i
RECURSIVE BracketedLength(_, _)
BracketedLength(q, i) ==
  IF i > Len(q) THEN 0
  ELSE IF q[i] # "[" THEN BracketedLength(q, i + 1)
  ELSE LET closers == {j \in (i + 1)..Len(q) : q[j] = "]"}
       IN IF closers = {} THEN BracketedLength(q, i + 1)
          ELSE LET j == CHOOSE k \in closers : \A m \in closers : k <= m
               IN IF j >= i + 2
                    THEN (j - i + 1) + BracketedLength(q, j + 1)
                    ELSE BracketedLength(q, i + 1)

\* the season tested against the upper end of the range only
isValidQuoteUpperOnly(aScene, range) ==
  LET season == aScene.Episode.Season
      quote == getQuoteText(aScene)
  IN /\ ~(season > range.max)
     /\ quote # <<>>
     /\ ~(SplitLength(trim(quote)) < CONFIG.minQuoteWords)
     /\ ~(trim(quote) # <<>> /\ Head(trim(quote)) = "[")
     /\ ~(2 * BracketedLength(quote, 1) > Len(quote))

\* a quote of exactly minQuoteWords words turned away
isValidQuoteStrictWords(aScene, range) ==
  LET season == aScene.Episode.Season
      quote == getQuoteText(aScene)
  IN /\ ~(season < range.min \/ season > range.max)
     /\ quote # <<>>
     /\ ~(SplitLength(trim(quote)) <= CONFIG.minQuoteWords)
     /\ ~(trim(quote) # <<>> /\ Head(trim(quote)) = "[")
     /\ ~(2 * BracketedLength(quote, 1) > Len(quote))

\* the stage direction looked for at the first character of the untrimmed
\* quote
isValidQuoteUntrimmed(aScene, range) ==
  LET season == aScene.Episode.Season
      quote == getQuoteText(aScene)
  IN /\ ~(season < range.min \/ season > range.max)
     /\ quote # <<>>
     /\ ~(SplitLength(trim(quote)) < CONFIG.minQuoteWords)
     /\ ~(quote # <<>> /\ Head(quote) = "[")
     /\ ~(2 * BracketedLength(quote, 1) > Len(quote))

\* range is state.seasonRange
isValidQuote(aScene, range) ==
  LET season == aScene.Episode.Season
      quote == getQuoteText(aScene)
  IN /\ ~(season < range.min \/ season > range.max)
     /\ quote # <<>>
     /\ ~(SplitLength(trim(quote)) < CONFIG.minQuoteWords)
     /\ ~(trim(quote) # <<>> /\ Head(trim(quote)) = "[")
     /\ ~(2 * BracketedLength(quote, 1) > Len(quote))

(***************************************************************************)
(* Fuzzy matching.                                                         *)
(***************************************************************************)
\* s.replace(/['']/g, "'").replace(/[""]/g, '"'): each class holds the one
\* character it is replaced by
ReplaceQuotes(s) ==
  [i \in 1..Len(s) |->
     CASE s[i] = "'" -> "'" [] s[i] = "\"" -> "\"" [] OTHER -> s[i]]

\* the ends trimmed before the characters are removed
normalizeStringTrimmedFirst(str) ==
  CollapseSpaces(StripNonAlnum(ReplaceQuotes(trim(toLowerCase(str)))))

normalizeString(str) ==
  trim(CollapseSpaces(StripNonAlnum(ReplaceQuotes(toLowerCase(str)))))

\* one row of the matrix, cell by cell: row holds matrix[i][0..Len(row)-1]
\* and prev is matrix[i-1]
RECURSIVE MatrixRow(_, _, _, _, _)
MatrixRow(a, b, i, prev, row) ==
  IF Len(row) = Len(a) + 1 THEN row
  ELSE LET j == Len(row)
           cell == IF b[i] = a[j] THEN prev[j]
                   ELSE Min(prev[j] + 1, Min(row[j] + 1, prev[j + 1] + 1))
       IN MatrixRow(a, b, i, prev, Append(row, cell))

\* the rows i..Len(b) of the matrix, then matrix[Len(b)][Len(a)]
RECURSIVE MatrixRows(_, _, _, _)
MatrixRows(a, b, i, prev) ==
  IF i > Len(b) THEN prev[Len(a) + 1]
  ELSE MatrixRows(a, b, i + 1, MatrixRow(a, b, i, prev, <<i>>))

\* row 0 of the matrix all zeros
levenshteinDistanceFreePrefix(a, b) ==
  MatrixRows(a, b, 1, [j \in 1..(Len(a) + 1) |-> 0])

levenshteinDistance(a, b) ==
  MatrixRows(a, b, 1, [j \in 1..(Len(a) + 1) |-> j - 1])

\* the distance taken against the shorter of the two lengths
similarityOverShorter(a, b) ==
  LET normA == normalizeString(a)
      normB == normalizeString(b)
      minLen == Min(Len(normA), Len(normB))
  IN IF normA = normB THEN [num |-> 1, den |-> 1]
     ELSE [num |-> minLen - levenshteinDistance(normA, normB), den |-> minLen]

\* the similarity as the fraction num/den
similarity(a, b) ==
  LET normA == normalizeString(a)
      normB == normalizeString(b)
      maxLen == Max(Len(normA), Len(normB))
  IN IF normA = normB THEN [num |-> 1, den |-> 1]
     ELSE IF maxLen = 0 THEN [num |-> 1, den |-> 1]
     ELSE [num |-> maxLen - levenshteinDistance(normA, normB), den |-> maxLen]

checkAnswer(guess, aScene) ==
  LET correctTitle == aScene.Episode.Title
      sim == similarity(guess, correctTitle)
  IN [ correct |-> 100 * sim.num >= CONFIG.similarityThresholdPct * sim.den,
       similarity |-> sim,
       actualTitle |-> correctTitle ]

(***************************************************************************)
(* The season range read from the two settings inputs.                     *)
(***************************************************************************)
getSeasonRange(seasonMinValue, seasonMaxValue) ==
  LET pmin == parseInt(seasonMinValue)
      pmax == parseInt(seasonMaxValue)
      min == IF Truthy(pmin) THEN pmin[1] ELSE 1
      max == IF Truthy(pmax) THEN pmax[1] ELSE 9
  IN [min |-> Max(1, Min(min, max)), max |-> Min(20, Max(min, max))]

(***************************************************************************)
(* What the environment supplies: the provider's responses and the texts   *)
(* the player types.                                                       *)
(***************************************************************************)
Title1 == <<"A", "b", " ", "C", "d", "!">>
Title2 == <<"D", "e", " ", "x">>
Title3 == <<"D", "!", "e">>
Title4 == <<"!">>

SceneA ==
  [ Episode |-> [Season |-> 1, EpisodeNumber |-> 2, Title |-> Title1],
    Subtitles |-> << <<"a", " ", "b", " ", "c">>, <<"d", " ", "e">> >> ]

SceneB ==
  [ Episode |-> [Season |-> 3, EpisodeNumber |-> 1, Title |-> Title2],
    Subtitles |-> << <<"a", " ", "[", "x", "]", " ", "b", " ", "c", " ", "d">> >> ]

\* four words only
SceneShort ==
  [ Episode |-> [Season |-> 1, EpisodeNumber |-> 5, Title |-> Title1],
    Subtitles |-> << <<"a", " ", "b">>, <<"c", " ", "d">> >> ]

\* a stage direction first
SceneStage ==
  [ Episode |-> [Season |-> 3, EpisodeNumber |-> 4, Title |-> Title2],
    Subtitles |-> << <<"[", "x", "]", " ", "a", " ", "b", " ", "c", " ", "d">> >> ]

\* no subtitles at all
SceneSilent ==
  [ Episode |-> [Season |-> 1, EpisodeNumber |-> 7, Title |-> Title1],
    Subtitles |-> << >> ]

\* a season outside every range of SeasonInputs
SceneLate ==
  [ Episode |-> [Season |-> 12, EpisodeNumber |-> 3, Title |-> Title2],
    Subtitles |-> << <<"a", " ", "b", " ", "c", " ", "d", " ", "e">> >> ]

\* nine words in two subtitle lines
SceneNine ==
  [ Episode |-> [Season |-> 1, EpisodeNumber |-> 6, Title |-> Title1],
    Subtitles |->
      << <<"I", " ", "d", "i", "d", "n", "'", "t", " ", "k", "n", "o",
         "w", " ", "y", "o", "u">>,
         <<"c", "o", "u", "l", "d", " ", "s", "m", "o", "k", "e", " ",
         "f", "o", "u", "r", " ", "a", "t", " ", "o", "n", "c",
         "e">> >> ]

\* five words, the two bracketed spans 11 of the 22 characters
SceneHalf ==
  [ Episode |-> [Season |-> 3, EpisodeNumber |-> 8, Title |-> Title2],
    Subtitles |->
      << <<"a", "b", "c", " ", "c", "d", " ", "e", "f", " ", "[", "x",
         "]", " ", "[", "x", "x", "x", "x", "x", "x", "]">> >> ]

\* five words, the bracketed span 9 of the 17 characters
SceneMostly ==
  [ Episode |-> [Season |-> 3, EpisodeNumber |-> 9, Title |-> Title2],
    Subtitles |->
      << <<"a", " ", "b", " ", "c", " ", "d", " ", "[", "x", "x", "x",
         "x", "x", "x", "x", "]">> >> ]

\* a stage direction first, after a space
SceneIndented ==
  [ Episode |-> [Season |-> 1, EpisodeNumber |-> 10, Title |-> Title1],
    Subtitles |->
      << <<" ", "[", "x", "]", " ", "a", " ", "b", " ", "c", " ", "d",
         " ", "e">> >> ]

\* a title of two letters around a punctuation mark
SceneTerse ==
  [ Episode |-> [Season |-> 2, EpisodeNumber |-> 4, Title |-> Title3],
    Subtitles |-> << <<"a", " ", "b", " ", "c", " ", "d", " ", "e">> >> ]

\* a title without a letter or a digit
SceneMute ==
  [ Episode |-> [Season |-> 2, EpisodeNumber |-> 5, Title |-> Title4],
    Subtitles |-> << <<"a", " ", "b", " ", "c", " ", "d", " ", "e">> >> ]

\* the responses of the provider, by name; the state holds the name
Scenes ==
  [ A |-> SceneA, B |-> SceneB, Short |-> SceneShort, Stage |-> SceneStage,
    Silent |-> SceneSilent, Late |-> SceneLate, Nine |-> SceneNine,
    Half |-> SceneHalf, Mostly |-> SceneMostly, Indented |-> SceneIndented,
    Terse |-> SceneTerse, Mute |-> SceneMute ]

\* the responses that differ in their titles
TitleCandidates == {"A", "B", "Terse", "Mute"}

Candidates == {"A", "B", "Short", "Stage", "Silent", "Late"}

\* the responses that try each rule of the validator
QuoteCandidates == DOMAIN Scenes \ {"Terse", "Mute"}

\* state.scene before the first acquisition succeeds
null == "null"

\* the text of an element nothing has written yet
NoText == [text |-> "", tenths |-> 0]

\* the values of the season-min and season-max inputs when a round starts
DefaultInputs == << <<>>, <<>> >>

SeasonInputs == { DefaultInputs, << <<"3">>, <<"2">> >> }

\* integers typed into either season input; 0 and the empty text are falsy
RangeTexts ==
  { <<>>, <<"0">>, <<"-", "3">>, <<"1">>, <<"5">>, <<"2", "5">> }

RangeInputs == RangeTexts \X RangeTexts

\* the value of the guess input
GuessTexts ==
  { <<"a", "b", " ", "c", "d">>, <<"d", "e", " ", "a">>, <<"x", "x">>, <<" ">> }

\* the values of the season and episode-number guess inputs
NumberTexts == { <<>>, <<"1">>, <<"2">> }

\* the pieces of the texts of SpecText, and the most pieces in one text
TypedPieces ==
  { <<"D">>, <<"e">>, <<"x">>, <<" ">>, <<" ", "!", " ">> }

MaxTyped == 3

RECURSIVE Concat(_)
Concat(pieces) ==
  IF pieces = <<>> THEN <<>> ELSE Head(pieces) \o Concat(Tail(pieces))

\* every text of at most MaxTyped of these pieces
TypedTexts ==
  {Concat(ps) : ps \in UNION {[1..n -> TypedPieces] : n \in 0..MaxTyped}}

\* the titles of the responses, and the texts normalizeString is given
Titles == {Scenes[c].Episode.Title : c \in DOMAIN Scenes}

Texts == {trim(g) : g \in TypedTexts} \cup TypedTexts \cup Titles

\* normalizeString, tabulated over the texts: applied once and twice
Normalized ==
  [ s \in Texts |->
      LET n == normalizeString(s)
      IN [once |-> n, twice |-> normalizeString(n)] ]

\* similarity and levenshteinDistance, tabulated over the trimmed typed
\* texts and the titles, in both orders of their arguments
Compared ==
  [ title \in Titles |-> [ guess \in {trim(g) : g \in TypedTexts} |->
      [ there |-> similarity(guess, title),
        back |-> similarity(title, guess),
        distanceThere |-> levenshteinDistance(normalizeString(guess),
                                              normalizeString(title)),
        distanceBack |-> levenshteinDistance(normalizeString(title),
                                             normalizeString(guess)),
        self |-> similarity(guess, guess) ] ] ]

\* the season ranges the season inputs give
SeasonRanges ==
  {getSeasonRange(p[1], p[2]) : p \in SeasonInputs \cup RangeInputs}

\* isValidQuote, tabulated over the responses and the season ranges
Valid ==
  [ c \in DOMAIN Scenes |->
      [ range \in SeasonRanges |-> isValidQuote(Scenes[c], range) ] ]

\* checkAnswer, tabulated over the trimmed guess texts and the scenes
Judged ==
  LET guesses == {trim(g) : g \in GuessTexts \cup TypedTexts}
      answers == [title \in Titles |->
                    [guess \in guesses |->
                       checkAnswer(guess, [Episode |-> [Title |-> title]])]]
  IN [c \in DOMAIN Scenes |-> answers[Scenes[c].Episode.Title]]

(***************************************************************************)
(* The state: the fields of `state`, the two elements of `els` whose       *)
(* display the handlers switch, the error last written to the console, the *)
(* startNewRound calls suspended in getValidScene, each with the locals of *)
(* its loop, the text of the guess input as submitGuess last read it, and  *)
(* the session average as showResult last wrote it.                        *)
(***************************************************************************)
VARIABLES scene, roundPoints, totalPoints, roundsPlayed, revealed, guessed,
          won, seasonRange, loading, resultPanel, lastError, inflight,
          guessInput, sessionAvg

round == <<scene, roundPoints, revealed, guessed, won>>

session == <<totalPoints, roundsPlayed>>

vars == <<scene, roundPoints, totalPoints, roundsPlayed, revealed, guessed,
          won, seasonRange, loading, resultPanel, lastError, inflight,
          guessInput, sessionAvg>>

Acquisition(attempts, fetches) == [attempts |-> attempts, fetches |-> fetches]

Others(acq) == inflight (-) SetToBag({acq})

\* the loop test off by one
LoopConditionInclusive(attempts) == attempts <= maxAttempts

\* the test of the while loop of getValidScene
LoopCondition(attempts) == attempts < maxAttempts

\* init() up to its first suspension: the handlers are registered and the
\* first startNewRound call awaits its first fetch, the season inputs
\* holding one of seasonInputs
Loaded(seasonInputs) ==
  /\ scene = null
  /\ roundPoints = CONFIG.startingPoints
  /\ totalPoints = 0
  /\ roundsPlayed = 0
  /\ revealed = {}
  /\ guessed = FALSE
  /\ won = FALSE
  /\ \E p \in seasonInputs : seasonRange = getSeasonRange(p[1], p[2])
  /\ loading = "block"
  /\ resultPanel = "none"
  /\ lastError = "none"
  /\ inflight = SetToBag({Acquisition(0, 1)})
  /\ guessInput = <<>>
  /\ sessionAvg = NoText

\* the catch block alone: the loading indication stays
FailureStillLoading(rest, err) ==
  /\ inflight' = rest
  /\ lastError' = err
  /\ UNCHANGED <<round, session, seasonRange, loading, resultPanel,
                 guessInput, sessionAvg>>

\* the catch and finally blocks of startNewRound
Failure(rest, err) ==
  /\ inflight' = rest
  /\ lastError' = err
  /\ loading' = "none"
  /\ UNCHANGED <<round, session, seasonRange, resultPanel, guessInput,
                 sessionAvg>>

\* getValidScene at the head of its loop: the next fetch, or the throw
WhileLoop(attempts, fetches, rest, display) ==
  IF LoopCondition(attempts)
    THEN /\ inflight' = rest (+) SetToBag({Acquisition(attempts, fetches + 1)})
         /\ loading' = display
         /\ UNCHANGED <<round, session, lastError>>
    ELSE /\ inflight' = rest
         /\ lastError' = "NoValidScene"
         /\ loading' = "none"
         /\ UNCHANGED <<round, session>>

\* startNewRound, up to the first await of getValidScene
StartNewRound(seasonMinValue, seasonMaxValue) ==
  /\ resultPanel' = "none"
  /\ seasonRange' = getSeasonRange(seasonMinValue, seasonMaxValue)
  /\ UNCHANGED <<guessInput, sessionAvg>>
  /\ WhileLoop(0, 0, inflight, "block")

\* the whole state object replaced, the session totals with it
SuccessFromScratch(rest, sceneFound) ==
  /\ inflight' = rest
  /\ scene' = sceneFound
  /\ roundPoints' = CONFIG.startingPoints
  /\ revealed' = {}
  /\ guessed' = FALSE
  /\ won' = FALSE
  /\ loading' = "none"
  /\ totalPoints' = 0
  /\ roundsPlayed' = 0
  /\ guessInput' = <<>>
  /\ UNCHANGED <<seasonRange, resultPanel, lastError, sessionAvg>>

\* the scene replaced, the hints and the points of the last round kept
SuccessSceneOnly(rest, sceneFound) ==
  /\ inflight' = rest
  /\ scene' = sceneFound
  /\ guessed' = FALSE
  /\ won' = FALSE
  /\ loading' = "none"
  /\ guessInput' = <<>>
  /\ UNCHANGED <<roundPoints, revealed, session, seasonRange, resultPanel,
                 lastError, sessionAvg>>

\* the points reset, the hints of the last round kept
SuccessKeepsHints(rest, sceneFound) ==
  /\ inflight' = rest
  /\ scene' = sceneFound
  /\ roundPoints' = CONFIG.startingPoints
  /\ guessed' = FALSE
  /\ won' = FALSE
  /\ loading' = "none"
  /\ guessInput' = <<>>
  /\ UNCHANGED <<revealed, session, seasonRange, resultPanel, lastError,
                 sessionAvg>>

\* the try block of startNewRound after getValidScene returned sceneFound
Success(rest, sceneFound) ==
  /\ inflight' = rest
  /\ scene' = sceneFound
  /\ roundPoints' = CONFIG.startingPoints
  /\ revealed' = {}
  /\ guessed' = FALSE
  /\ won' = FALSE
  /\ loading' = "none"
  /\ guessInput' = <<>>
  /\ UNCHANGED <<session, seasonRange, resultPanel, lastError, sessionAvg>>

\* the candidate was rejected: attempts++ and back to the head of the loop
Rejected(acq) ==
  /\ WhileLoop(acq.attempts + 1, acq.fetches, Others(acq), loading)
  /\ UNCHANGED <<seasonRange, resultPanel, guessInput, sessionAvg>>

\* the last candidate of the budget returned whatever the validator says
FetchResolvesLastResort(acq, candidate) ==
  /\ acq \in BagToSet(inflight)
  /\ IF \/ Valid[candidate][seasonRange]
        \/ ~LoopCondition(acq.attempts + 1)
       THEN Success(Others(acq), candidate)
       ELSE Rejected(acq)

\* the fetch of acq resolves with candidate
FetchResolves(acq, candidate) ==
  /\ acq \in BagToSet(inflight)
  /\ IF Valid[candidate][seasonRange]
       THEN Success(Others(acq), candidate)
       ELSE Rejected(acq)

\* the error swallowed inside the loop and the attempt counted as a rejection
FetchFailsRetried(acq) ==
  /\ acq \in BagToSet(inflight)
  /\ Rejected(acq)

\* the fetch of acq rejects: a network error, or a body that is no JSON
FetchFails(acq) ==
  /\ acq \in BagToSet(inflight)
  /\ Failure(Others(acq), "FetchFailed")

(***************************************************************************)
(* revealHint and submitGuess.                                             *)
(***************************************************************************)
\* the cost taken from the starting points instead of the points left
RevealHintFromStart(hintType) ==
  IF hintType \in revealed \/ guessed THEN UNCHANGED vars
  ELSE /\ roundPoints' =
            Max(0, CONFIG.startingPoints - CONFIG.hintCosts[hintType])
       /\ revealed' = revealed \cup {hintType}
       /\ UNCHANGED <<scene, guessed, won, session, seasonRange, loading,
                      resultPanel, lastError, inflight, guessInput,
                      sessionAvg>>

\* revealHint without the test for a hint already revealed
RevealHintCharged(hintType) ==
  IF guessed THEN UNCHANGED vars
  ELSE /\ roundPoints' = Max(0, roundPoints - CONFIG.hintCosts[hintType])
       /\ revealed' = revealed \cup {hintType}
       /\ UNCHANGED <<scene, guessed, won, session, seasonRange, loading,
                      resultPanel, lastError, inflight, guessInput,
                      sessionAvg>>

RevealHint(hintType) ==
  IF hintType \in revealed \/ guessed THEN UNCHANGED vars
  ELSE /\ roundPoints' = Max(0, roundPoints - CONFIG.hintCosts[hintType])
       /\ revealed' = revealed \cup {hintType}
       /\ UNCHANGED <<scene, guessed, won, session, seasonRange, loading,
                      resultPanel, lastError, inflight, guessInput,
                      sessionAvg>>

\* the bonus of the two structured guesses
BonusPoints(guessedSeason, guessedEpisode, episode) ==
  (IF Truthy(guessedSeason) /\ guessedSeason[1] = episode.Season
     THEN CONFIG.bonusPoints.season ELSE 0)
  + (IF Truthy(guessedEpisode) /\ guessedEpisode[1] = episode.EpisodeNumber
       THEN CONFIG.bonusPoints.episode ELSE 0)

\* the bonus kept only by a correct title
FinalRoundPointsOfWinner(correct, points, bonusPoints) ==
  IF ~correct THEN 0 ELSE points + bonusPoints

\* the points of the round once the guess is judged
FinalRoundPoints(correct, points, bonusPoints) ==
  (IF ~correct THEN 0 ELSE points) + bonusPoints

\* the player typed guessValue and submitGuess returned early
Typed(guessValue) ==
  /\ guessInput' = guessValue
  /\ UNCHANGED <<round, session, seasonRange, loading, resultPanel,
                 lastError, inflight, sessionAvg>>

\* (total / rounds).toFixed(1): the text "number" stands for the decimal
\* with the given tenths, rounded half up
SessionAvg(total, rounds) ==
  IF rounds = 0
    THEN [text |-> IF total = 0 THEN "NaN" ELSE "Infinity", tenths |-> 0]
    ELSE [text |-> "number",
          tenths |-> (20 * total + rounds) \div (2 * rounds)]

\* the average taken over the rounds before this one
showResultStale(total, rounds) ==
  /\ resultPanel' = "block"
  /\ sessionAvg' = SessionAvg(total, rounds - 1)

\* showResult, total and rounds being state.totalPoints and
\* state.roundsPlayed when it is called
showResult(total, rounds) ==
  /\ resultPanel' = "block"
  /\ sessionAvg' = SessionAvg(total, rounds)

\* the guess text tested before it is trimmed
SubmitGuessUntrimmed(guessValue, seasonValue, episodeValue) ==
  IF guessed THEN UNCHANGED vars
  ELSE IF guessValue = <<>> THEN Typed(guessValue)
  ELSE IF scene = null THEN Typed(guessValue)
  ELSE LET result == Judged[scene][trim(guessValue)]
           bonusPoints == BonusPoints(parseInt(seasonValue),
                                      parseInt(episodeValue),
                                      Scenes[scene].Episode)
           final == FinalRoundPoints(result.correct, roundPoints, bonusPoints)
       IN /\ guessed' = TRUE
          /\ won' = result.correct
          /\ roundPoints' = final
          /\ totalPoints' = totalPoints + final
          /\ roundsPlayed' = roundsPlayed + 1
          /\ guessInput' = guessValue
          /\ showResult(totalPoints + final, roundsPlayed + 1)
          /\ UNCHANGED <<scene, revealed, seasonRange, loading, lastError,
                         inflight>>

\* submitGuess without the test for a round already guessed
SubmitGuessAgain(guessValue, seasonValue, episodeValue) ==
  IF trim(guessValue) = <<>> THEN Typed(guessValue)
  ELSE IF scene = null THEN Typed(guessValue)
  ELSE LET result == Judged[scene][trim(guessValue)]
           bonusPoints == BonusPoints(parseInt(seasonValue),
                                      parseInt(episodeValue),
                                      Scenes[scene].Episode)
           final == FinalRoundPoints(result.correct, roundPoints, bonusPoints)
       IN /\ guessed' = TRUE
          /\ won' = result.correct
          /\ roundPoints' = final
          /\ totalPoints' = totalPoints + final
          /\ roundsPlayed' = roundsPlayed + 1
          /\ guessInput' = guessValue
          /\ showResult(totalPoints + final, roundsPlayed + 1)
          /\ UNCHANGED <<scene, revealed, seasonRange, loading, lastError,
                         inflight>>

SubmitGuess(guessValue, seasonValue, episodeValue) ==
  \* showResult disabled the guess input and the submit button
  IF guessed THEN UNCHANGED vars
  ELSE IF trim(guessValue) = <<>> THEN Typed(guessValue)
  \* checkAnswer reads state.scene.Episode: the TypeError ends the handler
  ELSE IF scene = null THEN Typed(guessValue)
  ELSE LET result == Judged[scene][trim(guessValue)]
           bonusPoints == BonusPoints(parseInt(seasonValue),
                                      parseInt(episodeValue),
                                      Scenes[scene].Episode)
           final == FinalRoundPoints(result.correct, roundPoints, bonusPoints)
       IN /\ guessed' = TRUE
          /\ won' = result.correct
          /\ roundPoints' = final
          /\ totalPoints' = totalPoints + final
          /\ roundsPlayed' = roundsPlayed + 1
          /\ guessInput' = guessValue
          /\ showResult(totalPoints + final, roundsPlayed + 1)
          /\ UNCHANGED <<scene, revealed, seasonRange, loading, lastError,
                         inflight>>

(***************************************************************************)
(* The specifications.                                                     *)
(***************************************************************************)
InFlight == BagCardinality(inflight)

\* The handlers run one at a time, in any order.  The environment decides
\* how many startNewRound calls the player lets overlap (pending), which
\* texts the season inputs hold when a round is requested (seasonInputs),
\* which texts the two number inputs hold when a guess is submitted
\* (numberTexts), and how many rejected candidates the provider hands to
\* one acquisition (rejections); the player stops after MaxRounds rounds.
Page(pending, seasonInputs, numberTexts, rejections) ==
  \/ \E p \in seasonInputs :
       /\ InFlight < pending
       /\ roundsPlayed < MaxRounds
       /\ StartNewRound(p[1], p[2])
  \/ \E acq \in BagToSet(inflight), c \in Candidates :
       /\ Valid[c][seasonRange] \/ acq.attempts < rejections
       /\ FetchResolves(acq, c)
  \/ \E acq \in BagToSet(inflight) : FetchFails(acq)
  \/ \E h \in HintTypes : RevealHint(h)
  \/ \E g \in GuessTexts, s \in numberTexts, e \in numberTexts :
       /\ roundsPlayed < MaxRounds
       /\ SubmitGuess(g, s, e)

\* next-round requests may overlap and the season settings change between
\* them; title guesses only
Init == Loaded(SeasonInputs)

Next == Page(MaxInFlight, SeasonInputs, {<<>>}, MaxRetries)

Spec == Init /\ [][Next]_vars

\* one acquisition at a time, the season settings left empty; title, season
\* and episode-number guesses
InitPlay == Loaded({DefaultInputs})

NextPlay == Page(1, {DefaultInputs}, NumberTexts, MaxRetries)

SpecPlay == InitPlay /\ [][NextPlay]_vars

\* one acquisition at a time, the season settings left empty; the provider
\* may reject every candidate
InitLoop == Loaded({DefaultInputs})

NextLoop == Page(1, {DefaultInputs}, {<<>>}, maxAttempts)

SpecLoop == InitLoop /\ [][NextLoop]_vars

\* the provider answers with one of candidates
Provider(candidates, rejections) ==
  \E acq \in BagToSet(inflight), c \in candidates :
    /\ Valid[c][seasonRange] \/ acq.attempts < rejections
    /\ FetchResolves(acq, c)

\* one acquisition at a time; the season settings empty at first, then any
\* integers, and responses that try each rule of the validator
InitQuotes == Loaded({DefaultInputs})

NextQuotes ==
  \/ Page(1, RangeInputs, {<<>>}, MaxRetries)
  \/ Provider(QuoteCandidates \ Candidates, MaxRetries)

SpecQuotes == InitQuotes /\ [][NextQuotes]_vars

\* one acquisition at a time, the season settings left empty, responses
\* with four titles, and any short text in the guess input
InitText == Loaded({DefaultInputs})

NextText ==
  \/ /\ InFlight < 1
     /\ roundsPlayed < MaxRounds
     /\ StartNewRound(<<>>, <<>>)
  \/ Provider(TitleCandidates, MaxRetries)
  \/ \E g \in TypedTexts :
       /\ roundsPlayed < MaxRounds
       /\ SubmitGuess(g, <<>>, <<>>)

SpecText == InitText /\ [][NextText]_vars

\* every outstanding fetch resolves or rejects
FetchCompletes ==
  \E acq \in BagToSet(inflight) :
    \/ \E c \in Candidates : FetchResolves(acq, c)
    \/ FetchFails(acq)

SpecLoopFair == SpecLoop /\ WF_vars(FetchCompletes)

(***************************************************************************)
(* Properties.                                                             *)
(***************************************************************************)
\* an acquisition returns: the fetch of acq resolves with an accepted scene
Returns(acq, c) ==
  /\ Valid[c][seasonRange]
  /\ FetchResolves(acq, c)

AcquisitionSucceeds ==
  \E acq \in BagToSet(inflight), c \in Candidates : Returns(acq, c)

\* C1: revealHint(kind) changes nothing when kind is already revealed or the
\* round is guessed; otherwise it lowers roundPoints by the cost of kind,
\* not below 0, adds exactly kind to revealed and changes nothing else.  From
\* 100 points, season and image leave 50, also after a second season reveal.
C1_RevealHintContract ==
  /\ [][\A h \in HintTypes :
          RevealHint(h) =>
            IF h \in revealed \/ guessed
              THEN UNCHANGED vars
              ELSE /\ roundPoints' =
                        Max(0, roundPoints - CONFIG.hintCosts[h])
                   /\ revealed' = revealed \cup {h}
                   /\ UNCHANGED <<scene, guessed, won, totalPoints,
                                  roundsPlayed>>]_vars
  /\ [](~guessed /\ revealed = {"season", "image"} => roundPoints = 50)

C1_Witness ==
  /\ scene # null
  /\ ~guessed
  /\ revealed = {"season", "image"}
  /\ roundPoints = 50

\* C2: once a round is guessed, no step other than the return of an
\* acquisition changes roundPoints, revealed, won, totalPoints or
\* roundsPlayed, and the round stays guessed; a round is counted in the
\* session totals only by the step that makes it guessed.
C2_GuessedIsTerminal ==
  [][/\ guessed /\ ~AcquisitionSucceeds =>
          /\ guessed'
          /\ UNCHANGED <<roundPoints, revealed, won, totalPoints,
                         roundsPlayed>>
     /\ roundsPlayed' # roundsPlayed =>
          ~guessed /\ guessed' /\ roundsPlayed' = roundsPlayed + 1]_vars

C2_Witness ==
  /\ guessed
  /\ roundsPlayed = 1
  /\ totalPoints = roundPoints
  /\ revealed # {}
  /\ InFlight > 0

\* the step of an accepted guess
GuessAccepted == ~guessed /\ guessed'

\* C3: an accepted guess leaves (the points before the guess if the title
\* is correct, else 0) + 25 if the season guess equals the season of the
\* scene + 50 if the episode-number guess equals its episode number; a
\* wrong title with a correct season guess alone scores exactly 25.
C3_FinalRoundPoints ==
  [][GuessAccepted =>
      \A g \in GuessTexts, s \in NumberTexts, e \in NumberTexts :
       g = guessInput' /\ SubmitGuess(g, s, e) =>
         LET episode == Scenes[scene].Episode
             seasonBonus ==
               IF parseInt(s) = <<episode.Season>> THEN 25 ELSE 0
             episodeBonus ==
               IF parseInt(e) = <<episode.EpisodeNumber>> THEN 50 ELSE 0
             isCorrect == Judged[scene][trim(g)].correct
         IN /\ won' = isCorrect
            /\ roundPoints' =
                 (IF isCorrect THEN roundPoints ELSE 0)
                 + seasonBonus + episodeBonus
            /\ ~isCorrect /\ seasonBonus = 25 /\ episodeBonus = 0 =>
                 roundPoints' = 25]_vars

C3_Witness ==
  /\ guessed
  /\ ~won
  /\ revealed = {"season"}
  /\ roundPoints = 25

\* C4: an accepted guess adds the final points of its round to totalPoints
\* and 1 to roundsPlayed; no other step changes either, and neither ever
\* decreases.  While the first guessed round stands, totalPoints is its
\* final points.
C4_SessionTotals ==
  /\ [][/\ GuessAccepted =>
             /\ totalPoints' = totalPoints + roundPoints'
             /\ roundsPlayed' = roundsPlayed + 1
        /\ ~GuessAccepted => UNCHANGED <<totalPoints, roundsPlayed>>
        /\ totalPoints' >= totalPoints
        /\ roundsPlayed' >= roundsPlayed]_vars
  /\ [](roundsPlayed = 0 => totalPoints = 0)
  /\ [](roundsPlayed = 1 /\ guessed => totalPoints = roundPoints)

\* rounds of 80 and 40
C4_Witness ==
  /\ roundsPlayed = 2
  /\ guessed
  /\ roundPoints = 40
  /\ totalPoints = 120

\* the fetch of acq resolves with a candidate the validator rejects
Rejects(acq, c) ==
  /\ ~Valid[c][seasonRange]
  /\ FetchResolves(acq, c)

\* C5: an acquisition whose candidates are all rejected makes exactly 50
\* fetches and then fails with the no-valid-scene error: each rejection
\* before the 50th is followed by one more fetch, the 50th by the failure,
\* no acquisition ever makes a 51st fetch, and the no-valid-scene error
\* appears only as an acquisition ends on its 50th fetch.  An acquisition whose fetches all complete ends.
C5_FiftyFetchesThenFailure ==
  /\ [](\A acq \in BagToSet(inflight) :
          acq.fetches = acq.attempts + 1 /\ acq.fetches <= 50)
  /\ [][\A acq \in BagToSet(inflight), c \in Candidates :
          Rejects(acq, c) =>
            IF acq.fetches < 50
              THEN /\ inflight' = Others(acq) (+)
                        SetToBag({Acquisition(acq.attempts + 1,
                                              acq.fetches + 1)})
                   /\ UNCHANGED <<lastError, loading>>
              ELSE /\ inflight' = Others(acq)
                   /\ lastError' = "NoValidScene"]_vars
  /\ [][lastError # "NoValidScene" /\ lastError' = "NoValidScene" =>
          \E acq \in BagToSet(inflight) :
            acq.fetches = 50 /\ inflight' = Others(acq)]_vars
  /\ (InFlight > 0 ~> InFlight = 0)

C5_Witness ==
  /\ lastError = "NoValidScene"
  /\ InFlight = 0
  /\ loading = "none"

\* C6: when the fetch of an acquisition resolves with a candidate the
\* validator accepts, that candidate becomes the scene and the acquisition
\* ends without another fetch, having made one fetch more than it had
\* rejections; the scene changes in no other way, so a rejected candidate
\* is never returned.
C6_FirstAcceptedIsReturned ==
  [][/\ \A acq \in BagToSet(inflight), c \in Candidates :
          Returns(acq, c) =>
            /\ scene' = c
            /\ inflight' = Others(acq)
            /\ acq.fetches = acq.attempts + 1
     /\ scene' # scene =>
          /\ isValidQuote(Scenes[scene'], seasonRange)
          /\ \E acq \in BagToSet(inflight) : inflight' = Others(acq)]_vars

\* the 50th fetch is outstanding and a round follows if it is accepted
C6_Witness ==
  /\ scene = null
  /\ \E acq \in BagToSet(inflight) :
       /\ acq.attempts = 49
       /\ acq.fetches = 50
       /\ ENABLED (Returns(acq, "B") /\ scene' = "B" /\ InFlight' = 0)

\* C7: at most one acquisition is in flight at any time.
C7_OneAcquisitionInFlight == InFlight <= 1

\* C8: while a fetch of an acquisition is outstanding the loading
\* indication is shown.
C8_LoadingWhileFetching == InFlight > 0 => loading = "block"

\* a step of an acquisition that fails it
Fails(acq) ==
  \/ FetchFails(acq)
  \/ \E c \in Candidates : acq.fetches = maxAttempts /\ Rejects(acq, c)

\* a step of an acquisition that neither fails nor returns
Continues ==
  \/ \E p \in SeasonInputs : StartNewRound(p[1], p[2])
  \/ \E acq \in BagToSet(inflight), c \in Candidates :
       acq.fetches < maxAttempts /\ Rejects(acq, c)

\* C9: no step of a startNewRound call whose acquisition fails, by an
\* exhausted budget or by a fetch error, changes scene, roundPoints,
\* revealed, guessed, won, totalPoints or roundsPlayed; the failing step
\* ends the acquisition and hides the loading indication; and an
\* acquisition that returns after an earlier failure starts a fresh round.
C9_FailureIsRecoverable ==
  [][/\ \A acq \in BagToSet(inflight) :
          Fails(acq) =>
            /\ UNCHANGED <<round, session>>
            /\ loading' = "none"
            /\ inflight' = Others(acq)
     /\ Continues => UNCHANGED <<round, session>>
     /\ \A acq \in BagToSet(inflight), c \in Candidates :
          lastError # "none" /\ Returns(acq, c) =>
            /\ scene' = c
            /\ roundPoints' = 100
            /\ revealed' = {}
            /\ ~guessed'
            /\ ~won'
            /\ UNCHANGED session]_vars

\* a fresh round after a failed acquisition, the session kept
C9_Witness ==
  /\ lastError = "NoValidScene"
  /\ roundsPlayed = 1
  /\ totalPoints > 0
  /\ scene # null
  /\ ~guessed
  /\ revealed = {}
  /\ roundPoints = 100
  /\ loading = "none"

\* C10: when a fetch of an acquisition fails, the acquisition ends at once
\* with that error: it makes no further fetch and the failure is not
\* counted as a rejected candidate.
C10_FetchFailurePropagates ==
  [][\A acq \in BagToSet(inflight) :
       FetchFails(acq) =>
         /\ inflight' = Others(acq)
         /\ lastError' = "FetchFailed"
         /\ loading' = "none"
         /\ UNCHANGED <<round, session>>]_vars

\* the second fetch of an acquisition failed
C10_Witness ==
  /\ lastError = "FetchFailed"
  /\ InFlight = 0
  /\ loading = "none"

\* C11: the step on which an acquisition returns a scene starts a fresh
\* round: the scene is the one returned, roundPoints is the starting value
\* 100, revealed is empty, guessed and won are false, and totalPoints and
\* roundsPlayed are what they were.
C11_SuccessStartsFreshRound ==
  [][\A acq \in BagToSet(inflight), c \in Candidates :
       Returns(acq, c) =>
         /\ scene' = c
         /\ roundPoints' = CONFIG.startingPoints
         /\ roundPoints' = 100
         /\ revealed' = {}
         /\ guessed' = FALSE
         /\ won' = FALSE
         /\ totalPoints' = totalPoints
         /\ roundsPlayed' = roundsPlayed]_vars

\* a second round, fresh, after a first one lost
C11_Witness ==
  /\ scene = "B"
  /\ roundsPlayed = 1
  /\ totalPoints = 0
  /\ roundPoints = 100
  /\ revealed = {}
  /\ ~guessed
  /\ ~won
  /\ InFlight = 0
  /\ lastError = "none"

\* C12: the season range in state.seasonRange has min <= max, and min and
\* max both within 1..20, whatever integers the two season inputs hold.
C12_SeasonRangeWellFormed ==
  /\ seasonRange.min <= seasonRange.max
  /\ seasonRange.min \in 1..20
  /\ seasonRange.max \in 1..20

\* the season of a response lies outside state.seasonRange
OutOfRange(c) ==
  \/ Scenes[c].Episode.Season < seasonRange.min
  \/ Scenes[c].Episode.Season > seasonRange.max

\* the words of q: its maximal runs of characters that are not whitespace
WordCount(q) ==
  Cardinality({i \in 1..Len(q) :
                 ~IsSpace(q[i]) /\ (i = 1 \/ IsSpace(q[i - 1]))})

\* the first character of q that is not whitespace is an opening bracket
BracketFirst(q) ==
  \E i \in 1..Len(q) :
    /\ q[i] = "["
    /\ \A k \in 1..(i - 1) : IsSpace(q[k])

\* what the rules of the validator look at, for each response
QuoteFacts ==
  [ c \in DOMAIN Scenes |->
      LET q == getQuoteText(Scenes[c])
      IN [ length |-> Len(q),
           words |-> WordCount(q),
           bracketFirst |-> BracketFirst(q),
           bracketed |-> BracketedLength(q, 1) ] ]

\* the acquisition acq goes on after a rejected candidate, or gives up
\* after its last one; the round is as it was
TurnedAway(acq) ==
  /\ UNCHANGED round
  /\ \/ /\ acq.fetches < maxAttempts
        /\ inflight' =
             Others(acq) (+)
               SetToBag({Acquisition(acq.attempts + 1, acq.fetches + 1)})
     \/ /\ acq.fetches = maxAttempts
        /\ inflight' = Others(acq)
        /\ lastError' = "NoValidScene"

\* C13: a response whose season is below seasonRange.min or above
\* seasonRange.max is rejected whatever its quote is, also a quote every
\* other rule accepts; so the scene of a round is never out of the range
\* it was validated against.
C13_OutOfRangeIsRejected ==
  [][/\ \A acq \in BagToSet(inflight), c \in QuoteCandidates :
          OutOfRange(c) /\ FetchResolves(acq, c) => TurnedAway(acq)
     /\ scene' # scene => ~(LET c == scene' IN OutOfRange(c))]_vars

\* every response is out of the range 5..5 and one has been rejected
C13_Witness ==
  /\ seasonRange = [min |-> 5, max |-> 5]
  /\ \A c \in QuoteCandidates : OutOfRange(c)
  /\ \E c \in QuoteCandidates :
       /\ QuoteFacts[c].words >= CONFIG.minQuoteWords
       /\ ~QuoteFacts[c].bracketFirst
       /\ 2 * QuoteFacts[c].bracketed <= QuoteFacts[c].length
  /\ \E acq \in BagToSet(inflight) : acq.attempts = 1

\* C14: a response whose season is within the range and whose quote has
\* exactly minQuoteWords (5) words, does not start with "[" once trimmed,
\* and has bracketed spans of at most half its length, is accepted and
\* becomes the scene; so is the nine-word quote of season 1 under the
\* range 1..5.
C14_WellFormedIsAccepted ==
  [][\A acq \in BagToSet(inflight), c \in QuoteCandidates :
       /\ ~OutOfRange(c)
       /\ \/ QuoteFacts[c].words = CONFIG.minQuoteWords
          \/ /\ c = "Nine"
             /\ QuoteFacts[c].words = 9
             /\ seasonRange = [min |-> 1, max |-> 5]
       /\ ~QuoteFacts[c].bracketFirst
       /\ 2 * QuoteFacts[c].bracketed <= QuoteFacts[c].length
       /\ FetchResolves(acq, c)
       => /\ scene' = c
          /\ inflight' = Others(acq)
          /\ ~guessed'
          /\ loading' = "none"]_vars

\* the five-word quote that is bracketed by half is the scene
C14_Witness ==
  /\ scene = "Half"
  /\ QuoteFacts["Half"].words = 5
  /\ 2 * QuoteFacts["Half"].bracketed = QuoteFacts["Half"].length
  /\ seasonRange = [min |-> 1, max |-> 5]
  /\ ~guessed
  /\ InFlight = 0

\* C15: a response whose quote is empty, has fewer than minQuoteWords
\* words, starts with "[" once trimmed, or has bracketed spans of more than
\* half its length is rejected, whatever its season; a quote bracketed by
\* exactly half its length is not rejected for its brackets.
C15_MalformedIsRejected ==
  [][\A acq \in BagToSet(inflight), c \in QuoteCandidates :
       /\ (\/ QuoteFacts[c].length = 0
           \/ QuoteFacts[c].words < CONFIG.minQuoteWords
           \/ QuoteFacts[c].bracketFirst
           \/ 2 * QuoteFacts[c].bracketed > QuoteFacts[c].length)
            /\ FetchResolves(acq, c)
          => TurnedAway(acq)
       /\ 2 * QuoteFacts[c].bracketed = QuoteFacts[c].length /\
            QuoteFacts[c].bracketed > 0 /\ ~OutOfRange(c) /\
            FetchResolves(acq, c)
          => scene' = c]_vars

\* every response is within 1..20, each rule turns one away, and one has
\* been rejected
C15_Witness ==
  /\ seasonRange = [min |-> 1, max |-> 20]
  /\ \A c \in QuoteCandidates : ~OutOfRange(c)
  /\ QuoteFacts["Silent"].length = 0
  /\ QuoteFacts["Short"].words = 4
  /\ QuoteFacts["Stage"].bracketFirst /\ QuoteFacts["Indented"].bracketFirst
  /\ 2 * QuoteFacts["Mostly"].bracketed > QuoteFacts["Mostly"].length
  /\ ~QuoteFacts["Mostly"].bracketFirst
  /\ QuoteFacts["Mostly"].words = 5
  /\ scene = null
  /\ \E acq \in BagToSet(inflight) : acq.attempts = 1

(***************************************************************************)
(* The fuzzy match of a guess against a title.                             *)
(***************************************************************************)
\* C16: when a guess is accepted, its similarity to each title is the
\* similarity of the title to it, and the distance between the two
\* normalized strings is the same in both orders of the arguments; the
\* similarity checkAnswer computed is the one of the swapped arguments.
C16_SimilarityIsSymmetric ==
  [][GuessAccepted =>
       \A title \in Titles :
         LET both == Compared[title][trim(guessInput')]
         IN /\ both.there = both.back
            /\ both.distanceThere = both.distanceBack
            /\ title = Scenes[scene].Episode.Title =>
                 Judged[scene][trim(guessInput')].similarity = both.back]_vars

\* a guess of three characters accepted as right at exactly 0.75, one
\* character short of the title
C16_Witness ==
  /\ guessed
  /\ won
  /\ scene = "B"
  /\ guessInput = <<"D", "e", "x">>
  /\ Compared[Title2][guessInput].back = [num |-> 3, den |-> 4]

\* C17: when a guess is accepted, its similarity to each title is a
\* fraction num/den with den > 0 and 0 <= num <= den; the similarity of
\* the guess to itself, of the empty string to itself and of the empty
\* string to a title without a letter or a digit is 1; and a guess whose
\* normalized form is the normalized title of the scene is judged correct.
C17_SimilarityInUnitInterval ==
  [][GuessAccepted =>
       /\ \A title \in Titles :
            LET sim == Compared[title][trim(guessInput')]
            IN /\ sim.there.den > 0
               /\ 0 <= sim.there.num
               /\ sim.there.num <= sim.there.den
               /\ sim.self.den > 0
               /\ sim.self.num = sim.self.den
       /\ Compared[Title4][<<>>].self = [num |-> 1, den |-> 1]
       /\ Compared[Title4][<<>>].there = [num |-> 1, den |-> 1]
       /\ Normalized[trim(guessInput')].once
            = Normalized[Scenes[scene].Episode.Title].once => won']_vars

\* a guess that differs from the title in letter case and punctuation
\* only, judged correct; in another round it would be a guess without a
\* letter against the title without one
C17_Witness ==
  /\ guessed
  /\ won
  /\ scene = "Terse"
  /\ guessInput = <<"D", "e">>
  /\ guessInput # Title3
  /\ Compared[Title4][<<"x">>].there.num = 0

\* C18: for every text the guess input is given and for the title of the
\* scene of an accepted guess, normalizeString of the normalized text is
\* the normalized text, which holds only lowercase letters, digits and
\* spaces, no two spaces in a row, and no space first or last.
C18_NormalizeIsIdempotent ==
  [][\A s \in {guessInput', trim(guessInput')}
           \cup (IF GuessAccepted THEN {Scenes[scene].Episode.Title}
                                 ELSE {}) :
       guessInput' # guessInput \/ GuessAccepted =>
         LET n == Normalized[s].once
         IN /\ Normalized[s].twice = n
            /\ \A i \in 1..Len(n) :
                 /\ n[i] \in LowerLetters \cup Digits \cup {" "}
                 /\ n[i] = " " => i > 1 /\ i < Len(n) /\ n[i + 1] # " "]_vars

\* a text whose removed character stood between two spaces, accepted
C18_Witness ==
  /\ guessed
  /\ guessInput = <<"e", " ", "!", " ", "x">>
  /\ Normalized[guessInput].once = <<"e", " ", "x">>
  /\ Normalized[Title1].once = <<"a", "b", " ", "c", "d">>

(***************************************************************************)
(* Early returns of submitGuess, and the session average.                  *)
(***************************************************************************)
\* a round is being played
Active == scene # null /\ ~guessed

\* C19: a submitGuess whose guess text is empty after trimming leaves
\* guessed, won, roundPoints, revealed, totalPoints and roundsPlayed as
\* they were and an active round active; and in an active round whose
\* guess input holds such a text, a guess of another text is accepted.
C19_BlankGuessIsNoOp ==
  /\ [][\A g \in GuessTexts :
          trim(g) = <<>> /\ SubmitGuess(g, <<>>, <<>>) =>
            /\ UNCHANGED <<guessed, won, roundPoints, revealed, totalPoints,
                           roundsPlayed>>
            /\ Active => Active']_vars
  /\ [](Active /\ guessInput # <<>> /\ trim(guessInput) = <<>> =>
          ENABLED (\E g \in GuessTexts :
                     SubmitGuess(g, <<>>, <<>>) /\ GuessAccepted))

\* a blank text submitted in a round with a hint revealed
C19_Witness ==
  /\ Active
  /\ guessInput = <<" ">>
  /\ revealed # {}
  /\ roundPoints < CONFIG.startingPoints
  /\ roundsPlayed = 1

\* C20: the session average is written by accepted guesses only, when
\* roundsPlayed is at least 1, and is the quotient of the new totalPoints
\* by the new roundsPlayed; it is never the text of a division by zero.
C20_AverageAfterFirstRound ==
  /\ [][/\ GuessAccepted =>
             /\ roundsPlayed' >= 1
             /\ sessionAvg' = SessionAvg(totalPoints', roundsPlayed')
        /\ sessionAvg' # sessionAvg => GuessAccepted]_vars
  /\ [](sessionAvg.text \notin {"NaN", "Infinity"})

\* the average of two rounds, the first of them lost without a bonus
C20_Witness ==
  /\ roundsPlayed = 2
  /\ totalPoints = 125
  /\ sessionAvg = [text |-> "number", tenths |-> 625]

(***************************************************************************)
(* The points and the hints of a round.                                    *)
(***************************************************************************)
\* C21: roundPoints is never negative, and a revealHint step neither takes
\* an element out of revealed nor raises roundPoints.
C21_PointsAndHintsMonotone ==
  /\ [](roundPoints >= 0)
  /\ [][\A h \in HintTypes :
          RevealHint(h) =>
            /\ revealed \subseteq revealed'
            /\ roundPoints' <= roundPoints]_vars

\* a round lost after two hints, without a bonus: the points fell from 100
\* to 70 to 50, and the guess left 0
C21_Witness ==
  /\ guessed
  /\ ~won
  /\ revealed = {"image", "season"}
  /\ roundPoints = 0

\* C22: whenever the round is not guessed and the guess input, as
\* submitGuess read it, holds a text that is not empty after trimming, the
\* scene is present.
C22_SceneWhenGuessPasses ==
  ~guessed /\ trim(guessInput) # <<>> => scene # null

\* the sum of CONFIG.hintCosts over the kinds
RECURSIVE HintCostSum(_)
HintCostSum(kinds) ==
  IF kinds = {} THEN 0
  ELSE LET k == CHOOSE h \in kinds : TRUE
       IN CONFIG.hintCosts[k] + HintCostSum(kinds \ {k})

\* C23: while a round is active, roundPoints is the starting points less
\* the costs of the kinds in revealed, or 0 if that is negative, and is at
\* least 10.
C23_PointsFollowRevealed ==
  Active =>
    /\ roundPoints =
         Max(0, CONFIG.startingPoints - HintCostSum(revealed))
    /\ roundPoints >= 10

\* every hint revealed in the second round
C23_Witness ==
  /\ Active
  /\ roundsPlayed = 1
  /\ revealed = HintTypes
  /\ roundPoints = 10

\* C24: while a round is active, the season of its scene lies within
\* seasonRange and the scene is a valid quote for seasonRange.
C24_ActiveSceneInSeasonRange ==
  Active =>
    /\ Scenes[scene].Episode.Season >= seasonRange.min
    /\ Scenes[scene].Episode.Season <= seasonRange.max
    /\ Valid[scene][seasonRange]

(***************************************************************************)
(* revealHint as a function of the round.                                  *)
(***************************************************************************)
\* the cost taken from the starting points instead of the points left
revealHintOfFullPoints(r, hintType) ==
  IF hintType \in r.revealed \/ r.guessed THEN r
  ELSE [r EXCEPT
          !.roundPoints =
            Max(0, CONFIG.startingPoints - CONFIG.hintCosts[hintType]),
          !.revealed = @ \cup {hintType}]

\* r holds the roundPoints, revealed and guessed of state
revealHint(r, hintType) ==
  IF hintType \in r.revealed \/ r.guessed THEN r
  ELSE [r EXCEPT
          !.roundPoints = Max(0, @ - CONFIG.hintCosts[hintType]),
          !.revealed = @ \cup {hintType}]

\* revealHint called for each kind of order, first to last
RECURSIVE RevealAll(_, _)
RevealAll(r, order) ==
  IF order = <<>> THEN r
  ELSE RevealAll(revealHint(r, Head(order)), Tail(order))

\* the orders in which the kinds can be revealed, each kind once
Orders(kinds) ==
  {o \in [1..Cardinality(kinds) -> kinds] :
     \A i, j \in 1..Cardinality(kinds) : i # j => o[i] # o[j]}

\* every order of every set of kinds leaves the round r the same
Commutes(r) ==
  \A kinds \in SUBSET HintTypes :
    \A o1, o2 \in Orders(kinds) :
      /\ RevealAll(r, o1) = RevealAll(r, o2)
      /\ RevealAll(r, o1).revealed = r.revealed \cup kinds

\* Commutes, tabulated over the unguessed rounds of at most the starting
\* points
CommutesFrom ==
  [ points \in 0..CONFIG.startingPoints |->
      [ kinds \in SUBSET HintTypes |->
          Commutes([roundPoints |-> points, revealed |-> kinds,
                    guessed |-> FALSE]) ] ]

\* the rounds in which some order of the kinds meets the floor at 0
Floored ==
  {points \in 0..CONFIG.startingPoints :
     \E o \in Orders(HintTypes) :
       RevealAll([roundPoints |-> points, revealed |-> {},
                  guessed |-> FALSE], o).roundPoints = 0}

\* the orders commute from every round that meets the floor
FlooredCommute == \A points \in Floored : CommutesFrom[points][{}]

\* C25: a revealHint step leaves the roundPoints and the revealed set that
\* revealHint gives as a function of the round; from every active round,
\* and from every unguessed round whose points meet the floor at 0,
\* revealing any set of kinds in any order gives the same roundPoints and
\* the same revealed set, the kinds added to it.
C25_HintRevealsCommute ==
  /\ [][\A h \in HintTypes :
          RevealHint(h) =>
            LET after == revealHint([roundPoints |-> roundPoints,
                                     revealed |-> revealed,
                                     guessed |-> guessed], h)
            IN /\ roundPoints' = after.roundPoints
               /\ revealed' = after.revealed
               /\ guessed' = after.guessed]_vars
  /\ [](Active => CommutesFrom[roundPoints][revealed])
  /\ [](Active => FlooredCommute)

\* two kinds revealed in an active round; from 45 points the episode
\* number and then the season meet the floor
C25_Witness ==
  /\ Active
  /\ revealed = {"season", "episodeNumber"}
  /\ roundPoints = 40
  /\ 45 \in Floored
  /\ 100 \notin Floored

====
